---------------------------- MODULE Spec2Model ----------------------------
(***************************************************************************)
(* Price-resolution engine of Slush-Bot (src/src/bot/__init__.py):         *)
(* the token-bucket rate gate, the TTL cache, the HTTP JSON fetcher and    *)
(* the credential fallback chain.                                          *)
(*                                                                         *)
(* Time is a discrete clock `now`.  One tick is the time in which the      *)
(* bucket refills one token unit, i.e. 1 / (API_RPS * TokenUnit) seconds;  *)
(* tokens are kept in fixed point, TokenUnit units to the token, so that   *)
(* the float arithmetic of the gate is exact on the grid of ticks.         *)
(***************************************************************************)
EXTENDS Integers, Sequences, FiniteSets, TLC

\* ------------------------------------------------------------- bounds
MaxNow == 3           \* the clock stops advancing here
NTasks == 3           \* concurrent callers of the rate gate
MaxAcquires == 6      \* acquire() calls started in one run of the gate
MaxCalls == 2         \* fetch / details / price calls started in one run
MaxLayeredCalls == 3  \* calls started in one run over the three cache layers
TokenUnit == 2        \* fixed-point units per token
API_BURST == 2        \* bucket capacity in tokens (env API_BURST)
CACHE_TTL_SECONDS == 2 \* cache TTL in ticks (env CACHE_TTL_SECONDS)
MaxPrice == 120       \* the largest price the fee is computed for
MaxBelowZero == 12    \* how far below zero the prices go
MaxCross == 3         \* the longest list of cross-checked prices
MaxFeatures == 2      \* the longest list of enabled features
MaxIds == 6           \* the longest batch of item ids
FAST_CONCURRENCY == 2 \* semaphore size of a fast batch (line 547), scaled
SLOW_CONCURRENCY == 1 \* semaphore size of a slow batch (line 548), scaled
THROTTLE_THRESHOLD == 5 \* batch length from which a batch is slow (lines 546, 549), scaled
WAVE == 3             \* tasks created per wave (line 572), scaled
CHUNK == 3            \* embeds per message (line 587), scaled
MaxEmbeds == 7        \* the longest list of embeds sent
NChannels == 3        \* channel ids of a guild
MaxList == 3          \* the longest channel list given to set_guild_allowed_channels

Tasks == 1..NTasks
BurstUnits == API_BURST * TokenUnit

Min(a, b) == IF a <= b THEN a ELSE b
Max(a, b) == IF a >= b THEN a ELSE b

\* Python's None as a value (a cache miss, "no result", an absent price)
None == [none |-> TRUE]

VARIABLES
  now,          \* time.monotonic() / time.time(), in ticks
  api_tokens,   \* _api_tokens, in token units
  api_last,     \* _api_last
  gpc,          \* gpc[t]: "idle" | "sleep", position of task t in _api_rate_gate
  gwake,        \* gwake[t]: the time the task's asyncio.sleep ends
  \* history of the gate, for the claims
  g_owed,       \* g_owed[t]: units debited so far by t's acquire() in progress
  g_ret,        \* the last acquire() that returned: [task, suspended, debit]
  g_started,    \* acquire() calls started
  g_returned,   \* acquire() calls returned
  immNow,       \* calls that returned without suspending at the instant `now`
  suspNow,      \* some call suspended at the instant `now`
  lateImm,      \* a call returned at once after another suspended, same instant
  cache,        \* _cache: a dict, key |-> [ts, val]
  \* history of the cache used on its own, for the claims
  lastOp,       \* the last cache operation: [op, key, bypass, at, n]
  cret,         \* what the last _getc returned
  shadow,       \* shadow[key]: the last value set and not invalidated, [ts, val]
  fr,           \* the caller's frames: its position pc, the arguments and locals
                \* of get_price_any, api_get_details and _http_get_json, and
                \* what the last call returned (ret) and from where (hit)
  cwriter,      \* history: cwriter[key], the cookie argument of the call that
                \* stored the entry
  reqs,         \* history: the last two requests of the _http_get_json call
                \* made on its own that is in progress, or of the last one,
                \* <<[i, cred, status]>>
  nacq,         \* history: rate-gate acquisitions it completed
  ncalls,       \* history: calls started
  cfg,          \* the configuration read at import (lines 27-49)
  upstream,     \* upstream[c]: what the API may answer to a request with
                \* credential c
  calc,         \* the last call of a pure function: its arguments and result
  scan,         \* build_embeds_for_ids: its position pc, arguments and locals,
                \* the tasks of the wave in progress and what it returned
  allowed_by_guild, \* _allowed_by_guild: a dict, guild_id |-> list of channel ids
  allowlist,    \* history: allowlist[g], whether the calls so far have left
                \* guild g with an allowlist, and the channels put on it
  outbox        \* _send_embeds_in_chunks: its position, argument and locals,
                \* and the calls of send_func made so far

gateVars == <<api_tokens, api_last, gpc, gwake>>
gateHist == <<g_owed, g_ret, g_started, g_returned, immNow, suspNow, lateImm>>

cacheHist == <<lastOp, cret, shadow>>

callVars == <<fr, cwriter, reqs, nacq, ncalls>>

envVars == <<cfg, upstream>>

botVars == <<scan, allowed_by_guild, allowlist, outbox>>

vars == <<now, gateVars, gateHist, cache, cacheHist, callVars, envVars, calc, botVars>>

\* ---------------------------------------------------------- rate gate
Refill_NoCap(tokens, last, t) == tokens + (t - last)

\* line 208: min(API_BURST, _api_tokens + (now - _api_last) * API_RPS)
Refill(tokens, last, t) == Min(BurstUnits, tokens + (t - last))

\* line 210: if _api_tokens >= 1
CanDebit(tokens) == tokens >= TokenUnit

Debit_Forgotten(tokens) == tokens

\* line 211: _api_tokens -= 1
Debit(tokens) == tokens - TokenUnit

\* lines 212-214: need = 1 - tokens; sleep_s = need / API_RPS;
\* asyncio.sleep(max(0.01, sleep_s)).  need is at least one unit, which takes
\* one tick to refill, and 0.01 s is less than a tick.
SleepTicks(tokens) == Max(1, TokenUnit - tokens)

\* lines 206-213, the critical section: no await inside, so it is one atomic
\* step of the event loop.  The caller either leaves the gate at once (gpc stays
\* "idle") or leaves the lock and goes to sleep.
GateBody(t) ==
  LET refilled == Refill(api_tokens, api_last, now) IN
  /\ gpc[t] = "idle"
  /\ api_last' = now
  /\ IF CanDebit(refilled)
       THEN /\ api_tokens' = Debit(refilled)
            /\ UNCHANGED <<gpc, gwake>>
       ELSE /\ api_tokens' = refilled
            /\ gpc' = [gpc EXCEPT ![t] = "sleep"]
            /\ gwake' = [gwake EXCEPT ![t] = now + SleepTicks(refilled)]

\* line 214: the sleep ends and _api_rate_gate returns
GateWake(t) ==
  /\ gpc[t] = "sleep"
  /\ now >= gwake[t]
  /\ gpc' = [gpc EXCEPT ![t] = "idle"]
  /\ UNCHANGED <<api_tokens, api_last, gwake>>

\* A task calls _api_rate_gate(); the history records what the call did.
Acquire(t) ==
  LET refilled == Refill(api_tokens, api_last, now) IN
  /\ g_started < MaxAcquires
  /\ GateBody(t)
  /\ g_started' = g_started + 1
  /\ IF gpc'[t] = "idle"
       THEN /\ g_ret' = [task |-> t, suspended |-> FALSE,
                         debit |-> refilled - api_tokens']
            /\ g_returned' = g_returned + 1
            /\ immNow' = immNow + 1
            /\ lateImm' = (lateImm \/ suspNow)
            /\ UNCHANGED <<g_owed, suspNow>>
       ELSE /\ g_owed' = [g_owed EXCEPT ![t] = refilled - api_tokens']
            /\ suspNow' = TRUE
            /\ UNCHANGED <<g_ret, g_returned, immNow, lateImm>>
  /\ UNCHANGED <<envVars, calc, botVars, now, cache, cacheHist, callVars>>

\* The suspended call of task t returns.
AcquireWake(t) ==
  /\ GateWake(t)
  /\ g_ret' = [task |-> t, suspended |-> TRUE,
               debit |-> g_owed[t] + (api_tokens - api_tokens')]
  /\ g_owed' = [g_owed EXCEPT ![t] = 0]
  /\ g_returned' = g_returned + 1
  /\ UNCHANGED <<envVars, calc, botVars, now, g_started, immNow, suspNow, lateImm, cache, cacheHist, callVars>>

\* the clock advances; a new instant begins
ClockTick ==
  /\ now < MaxNow
  /\ now' = now + 1
  /\ immNow' = 0
  /\ suspNow' = FALSE
  /\ UNCHANGED <<envVars, calc, botVars, gateVars, g_owed, g_ret, g_started, g_returned, lateImm>>

\* lines 201-203: the bucket starts full
InitGate ==
  /\ api_tokens = BurstUnits
  /\ api_last = 0
  /\ gpc = [t \in Tasks |-> "idle"]
  /\ gwake = [t \in Tasks |-> 0]
  /\ g_owed = [t \in Tasks |-> 0]
  /\ g_ret = None
  /\ g_started = 0
  /\ g_returned = 0
  /\ immNow = 0
  /\ suspNow = FALSE
  /\ lateImm = FALSE

\* -------------------------------------------------------------- cache
\* Credentials: the main cookie, the two backups, and None (anonymous).
NoCookie == "None"
Cookies == {"MAIN", "A", "B"}
Creds == Cookies \cup {NoCookie}

\* Item ids are digit strings; <<7>> is a substring of <<7, 3>>.
Items == {<<7>>, <<7, 3>>}
Prices == {10, 20}
NoPrice == -1

\* An upstream details blob: the price it carries (NoPrice: none) and, as
\* provenance, the credential of the request that was answered with it and
\* the time of the answer.
Blob(p, c) == [price |-> p, by |-> c, at |-> now]

\* The cache keys the program builds: f"{op}::{auth}::{id}"
\* (lines 219, 254, 301); for httpjson the id stands for the details URL.
KeyOps == {"httpjson", "details", "price_any"}
Key(op, auth, id) == [op |-> op, auth |-> auth, id |-> id]
Keys == {Key(op, auth, id) : op \in KeyOps, auth \in BOOLEAN, id \in Items}

\* line 135
InitCache == cache = <<>>

Drop(c, key) == [k \in DOMAIN c \ {key} |-> c[k]]

getc_ExpiresAtTTL(c, key, bypass, t) ==
  IF bypass THEN [val |-> None, cache |-> c]
  ELSE IF key \notin DOMAIN c THEN [val |-> None, cache |-> c]
  ELSE IF CACHE_TTL_SECONDS <= 0 \/ t - c[key].ts >= CACHE_TTL_SECONDS
    THEN [val |-> None, cache |-> Drop(c, key)]
  ELSE [val |-> c[key].val, cache |-> c]

getc_BypassEvicts(c, key, bypass, t) ==
  IF bypass THEN [val |-> None, cache |-> Drop(c, key)]
  ELSE IF key \notin DOMAIN c THEN [val |-> None, cache |-> c]
  ELSE IF CACHE_TTL_SECONDS <= 0 \/ t - c[key].ts > CACHE_TTL_SECONDS
    THEN [val |-> None, cache |-> Drop(c, key)]
  ELSE [val |-> c[key].val, cache |-> c]

\* lines 136-143, _getc on cache c at time t: what it returns and the cache
\* it leaves (a stale entry is popped).
getc(c, key, bypass, t) ==
  IF bypass THEN [val |-> None, cache |-> c]
  ELSE IF key \notin DOMAIN c THEN [val |-> None, cache |-> c]
  ELSE IF CACHE_TTL_SECONDS <= 0 \/ t - c[key].ts > CACHE_TTL_SECONDS
    THEN [val |-> None, cache |-> Drop(c, key)]
  ELSE [val |-> c[key].val, cache |-> c]

\* line 144, _setc
setc(c, key, val, t) ==
  [k \in DOMAIN c \cup {key} |-> IF k = key THEN [ts |-> t, val |-> val] ELSE c[k]]

\* s occurs in w as a contiguous substring
IsSubstring(s, w) ==
  \E i \in 0..(Len(w) - Len(s)) : \A j \in 1..Len(s) : w[i + j] = s[j]

\* line 147, `gp_id in k` on the key's text.  The text outside the id holds no
\* digit but the 1 of ".../game-passes/v1/game-passes/..." in an httpjson key.
KeyContains(gp_id, key) ==
  \/ IsSubstring(gp_id, key.id)
  \/ key.op = "httpjson" /\ gp_id = <<1>>

\* lines 145-148, _clear_gp_cache
clear_gp_cache(c, gp_id) ==
  [k \in {x \in DOMAIN c : ~KeyContains(gp_id, x)} |-> c[k]]

\* ---- the cache used on its own
CacheVals == {Blob(p, "MAIN") : p \in Prices}

\* the keys it is exercised on: the details of each item
CacheKeys == {Key("details", TRUE, id) : id \in Items}

NoOp == [op |-> "none", key |-> Key("details", TRUE, <<7>>), bypass |-> FALSE,
         at |-> 0, n |-> 0]

InitCacheHist ==
  /\ lastOp = NoOp
  /\ cret = None
  /\ shadow = [k \in CacheKeys |-> None]

Op(op, key, bypass) ==
  [op |-> op, key |-> key, bypass |-> bypass, at |-> now, n |-> 1 - lastOp.n]

CacheGet(key, bypass) ==
  LET r == getc(cache, key, bypass, now) IN
  /\ cache' = r.cache
  /\ cret' = r.val
  /\ lastOp' = Op("get", key, bypass)
  /\ UNCHANGED <<envVars, calc, botVars, now, shadow, gateVars, gateHist, callVars>>

CacheSet(key, val) ==
  /\ cache' = setc(cache, key, val, now)
  /\ shadow' = [shadow EXCEPT ![key] = [ts |-> now, val |-> val]]
  /\ lastOp' = Op("set", key, FALSE)
  /\ UNCHANGED <<envVars, calc, botVars, now, cret, gateVars, gateHist, callVars>>

CacheClear(gp_id) ==
  /\ cache' = clear_gp_cache(cache, gp_id)
  /\ shadow' = [k \in CacheKeys |-> IF KeyContains(gp_id, k) THEN None ELSE shadow[k]]
  /\ lastOp' = Op("clear", lastOp.key, FALSE)
  /\ UNCHANGED <<envVars, calc, botVars, now, cret, gateVars, gateHist, callVars>>

\* ------------------------------------------- fetching and resolving
\* One caller runs _http_get_json, api_get_details and get_price_any, one call
\* after the other.  Code between two awaits is one step.

\* lines 40-43, 27-32: the configuration, at its defaults
FAST_MODE == TRUE
AUTO_SCRAPE_ON_FAIL == FALSE
FORCE_SCRAPE == FALSE
TRY_PLAYWRIGHT == FALSE
SPEED_MODE == "normal"

DefaultConfig ==
  [FAST_MODE |-> FAST_MODE, AUTO_SCRAPE_ON_FAIL |-> AUTO_SCRAPE_ON_FAIL,
   FORCE_SCRAPE |-> FORCE_SCRAPE, TRY_PLAYWRIGHT |-> TRY_PLAYWRIGHT,
   SPEED_MODE |-> SPEED_MODE]

\* every setting of the environment variables, with and without playwright
Configs ==
  [FAST_MODE : BOOLEAN, AUTO_SCRAPE_ON_FAIL : BOOLEAN, FORCE_SCRAPE : BOOLEAN,
   TRY_PLAYWRIGHT : BOOLEAN, SPEED_MODE : {"normal", "turbo"}]
\* line 49
RESPECT_RETRY_AFTER == TRUE
\* line 69: ROBLOSECURITY_COOKIES, both set
Backups == <<"A", "B">>
\* line 217
RETRY_STATUSES == {429, 500, 502, 503, 504}
\* line 222
attempts == 3
\* what the upstream answers: a status, or the request fails in transport
\* (or the body of a 200 does not parse), which raises inside the try
Statuses == {200, 401, 403, 404, 429, 500, 502, 503, 504}
TransportError == 0
Pending == -2

\* An answer of the upstream: a status and, with a 200, the price in the body.
Out(status, p) == [status |-> status, price |-> p]
Outcomes ==
  {Out(200, p) : p \in Prices \cup {NoPrice}} \cup
  {Out(st, NoPrice) : st \in (Statuses \ {200}) \cup {TransportError}}

\* the upstream may answer anything to anyone
AnyUpstream == [c \in Creds |-> Outcomes]

NoCalc == [fn |-> "none"]

\* build_embeds_for_ids not called yet
NoScan ==
  [pc |-> "idle", gp_ids |-> <<>>, slow_mode |-> FALSE, concurrency |-> 0,
   sem |-> 0, i |-> 0, tasks |-> <<>>, embeds |-> <<>>,
   total_price |-> 0, n_with_price |-> 0, ret |-> None,
   \* history: the wave starts i after which it slept, and whether a task
   \* returned while a task created before it was still unfinished
   slept |-> {}, overtook |-> FALSE,
   \* history: for each position of gp_ids, how many times its resolution was
   \* started and how many times it ended
   started |-> <<>>, finished |-> <<>>]

\* the guilds that use the bot and the channels of a guild
Guilds == {1, 2}
Channels == 1..NChannels

\* a guild without allowlist, and one with the channels chans on its list
NoList == [has |-> FALSE, chans |-> {}]
Listed(chans) == [has |-> TRUE, chans |-> chans]

\* _send_embeds_in_chunks not called yet
NoOutbox == [pc |-> "idle", embeds |-> <<>>, i |-> 0, upto |-> 0, sent |-> <<>>]

\* the scanner and the sender at rest, no allowlist file on disk
\* (allowed_channels.py lines 43-45)
InitBot ==
  /\ scan = NoScan
  /\ allowed_by_guild = <<>>
  /\ allowlist = [g \in Guilds |-> NoList]
  /\ outbox = NoOutbox

\* the configuration at its defaults, an unconstrained upstream
InitEnv == cfg = DefaultConfig /\ upstream = AnyUpstream /\ calc = NoCalc /\ InitBot

\* the gate task the caller runs as
Caller == 1

NoFrame ==
  [pc |-> "idle", op |-> "none", gp_id |-> <<7>>, cookie |-> NoCookie, force |-> FALSE,
   cookie_candidates |-> <<>>, k |-> 0,
   d_cookie |-> NoCookie, d_force |-> FALSE,
   h_cookie |-> NoCookie, h_force |-> FALSE, cur_cookie |-> NoCookie, i |-> 0,
   ret |-> None, hit |-> None, fresh |-> {},
   \* history: what get_price_via_api gave for each candidate tried so far,
   \* whether the render extraction ran, when the call returned, and the
   \* outcome of the get_price_any call before this one
   tried |-> <<>>, scraped |-> FALSE, at |-> 0, prev |-> None]

InitCall ==
  /\ fr = NoFrame
  /\ cwriter = <<>>
  /\ reqs = <<>>
  /\ nacq = 0
  /\ ncalls = 0

\* the state the caller works on: the cache, its history and the frames
Cur == [c |-> cache, w |-> cwriter, f |-> fr, reqs |-> reqs, nacq |-> nacq]

Commit(s) ==
  /\ cache' = s.c
  /\ cwriter' = [k \in DOMAIN s.c |-> s.w[k]]
  /\ fr' = s.f
  /\ reqs' = s.reqs
  /\ nacq' = s.nacq

Lookup_AlwaysMisses(s, key, bypass) == [val |-> None, cache |-> s.c]

\* _getc at the caller's state
Lookup(s, key, bypass) == getc(s.c, key, bypass, now)

\* _setc by a function called with cookie argument ck
Store(s, key, val, ck) ==
  [s EXCEPT !.c = setc(s.c, key, val, now),
            !.w = [k \in DOMAIN s.w \cup {key} |-> IF k = key THEN ck ELSE s.w[k]],
            !.f.fresh = @ \cup {key}]

\* history of a cache hit: the layer, the cookie argument of the function that
\* looked up, the cookie argument of the call that stored the entry, the
\* credential of the request the value came from, and whether the entry was
\* there before the call
Hit(s, layer, key, ck) ==
  [layer |-> layer, cred |-> ck, writer |-> s.w[key], by |-> s.c[key].val.by,
   old |-> key \notin s.f.fresh]

\* the top-level call returns val
Finish(s, val, hit) ==
  [s EXCEPT !.f = [NoFrame EXCEPT !.op = s.f.op, !.gp_id = s.f.gp_id,
                                  !.cookie = s.f.cookie, !.force = s.f.force,
                                  !.ret = val, !.hit = hit,
                                  !.tried = s.f.tried, !.scraped = s.f.scraped,
                                  !.at = now, !.prev = s.f.prev]]

\* lines 264-269, get_price_via_api: the price of a details blob
PriceOf(data) == IF data = None \/ data.price = NoPrice THEN None ELSE data

\* lines 318-323: no credential gave a price
AfterCandidates(s) ==
  LET should_scrape ==
        IF ~cfg.FORCE_SCRAPE
          THEN (~cfg.FAST_MODE) \/ (cfg.AUTO_SCRAPE_ON_FAIL /\ cfg.TRY_PLAYWRIGHT)
          ELSE TRUE
  IN IF ~should_scrape \/ ~cfg.TRY_PLAYWRIGHT
       THEN Finish(s, None, None)
       ELSE [s EXCEPT !.f.pc = "pa_scrape"]

\* lines 314-316: get_price_via_api returned data to the loop of get_price_any
ReturnToPriceAny(s, data, hit) ==
  LET key == Key("price_any", s.f.cookie # NoCookie, s.f.gp_id)
      price == PriceOf(data)
      s1 == [s EXCEPT !.f.tried = Append(@, [cred |-> s.f.cookie_candidates[s.f.k],
                                             price |-> price])]
  IN IF price # None
       THEN Finish(Store(s1, key, price, s.f.cookie), price, hit)
       ELSE [s1 EXCEPT !.f.k = @ + 1, !.f.pc = "pa_loop",
                      !.f.d_cookie = NoCookie, !.f.d_force = FALSE,
                      !.f.h_cookie = NoCookie, !.f.h_force = FALSE,
                      !.f.cur_cookie = NoCookie, !.f.i = 0]

\* api_get_details returns data to its caller
ReturnFromDetails(s, data, hit) ==
  IF s.f.op = "details" THEN Finish(s, data, hit)
  ELSE ReturnToPriceAny(s, data, hit)

\* lines 258-260: _http_get_json returned data to api_get_details, or to the
\* caller of a bare fetch
ReturnFromHttp(s, data, hit) ==
  IF s.f.op = "httpjson" THEN Finish(s, data, hit)
  ELSE LET key == Key("details", s.f.d_cookie # NoCookie, s.f.gp_id)
           s1 == [s EXCEPT !.reqs = <<>>, !.nacq = 0]
       IN ReturnFromDetails(IF data # None THEN Store(s1, key, data, s.f.d_cookie) ELSE s1,
                            data, hit)

\* lines 219-224, _http_get_json(url, cookie, force) up to its first await
EnterHttp(s, ck, force) ==
  LET key == Key("httpjson", ck # NoCookie, s.f.gp_id)
      r == Lookup(s, key, force)
      s1 == [s EXCEPT !.c = r.cache, !.f.h_cookie = ck, !.f.h_force = force]
  IN IF r.val # None
       THEN ReturnFromHttp(s1, r.val, Hit(s, "httpjson", key, ck))
       ELSE [s1 EXCEPT !.f.cur_cookie = ck, !.f.i = 0, !.f.pc = "http_gate"]

\* lines 254-258, api_get_details(gp_id, cookie, force)
EnterDetails(s, ck, force) ==
  LET key == Key("details", ck # NoCookie, s.f.gp_id)
      r == Lookup(s, key, force)
      s1 == [s EXCEPT !.c = r.cache, !.f.d_cookie = ck, !.f.d_force = force]
  IN IF r.val # None
       THEN ReturnFromDetails(s1, r.val, Hit(s, "details", key, ck))
       ELSE EnterHttp(s1, ck, force)

Candidates_AnonymousFirst(cookie) ==
  LET first == IF cookie # NoCookie THEN <<cookie>> ELSE <<>>
      alts == SelectSeq(Backups, LAMBDA alt : alt # cookie)
  IN <<NoCookie>> \o first \o alts

\* lines 307-311: cookie_candidates
Candidates(cookie) ==
  LET first == IF cookie # NoCookie THEN <<cookie>> ELSE <<>>
      alts == SelectSeq(Backups, LAMBDA alt : alt # cookie)
  IN first \o alts \o <<NoCookie>>

\* lines 301-311, get_price_any(gp_id, cookie, force) up to its loop
EnterPriceAny(s) ==
  LET key == Key("price_any", s.f.cookie # NoCookie, s.f.gp_id)
      r == Lookup(s, key, s.f.force)
      s1 == [s EXCEPT !.c = r.cache]
  IN IF r.val # None
       THEN Finish(s1, r.val, Hit(s, "price_any", key, s.f.cookie))
       ELSE IF ~cfg.FORCE_SCRAPE
         THEN [s1 EXCEPT !.f.cookie_candidates = Candidates(s.f.cookie),
                         !.f.k = 1, !.f.pc = "pa_loop"]
         ELSE AfterCandidates(s1)

\* a call starts, the cap-th at most
StartWithin(cap, op, gp_id, cookie, force) ==
  LET prev == IF fr.op = "price_any"
                THEN [auth |-> fr.cookie # NoCookie, gp_id |-> fr.gp_id,
                      ret |-> fr.ret, at |-> fr.at]
                ELSE None
      s == [Cur EXCEPT !.f = [NoFrame EXCEPT !.op = op, !.gp_id = gp_id,
                                             !.cookie = cookie, !.force = force,
                                             !.prev = prev],
                       !.reqs = <<>>, !.nacq = 0]
  IN /\ fr.pc = "idle"
     /\ ncalls < cap
     /\ ncalls' = ncalls + 1
     /\ Commit(CASE op = "price_any" -> EnterPriceAny(s)
                 [] op = "details" -> EnterDetails(s, cookie, force)
                 [] op = "httpjson" -> EnterHttp(s, cookie, force))
     /\ UNCHANGED <<envVars, calc, botVars, now, gateVars, gateHist, cacheHist>>

\* a call starts
Start(op, gp_id, cookie, force) == StartWithin(MaxCalls, op, gp_id, cookie, force)

\* lines 313-314: the loop of get_price_any takes the next candidate and calls
\* get_price_via_api(gp_id, ck), which calls api_get_details(gp_id, ck)
PaLoop ==
  /\ fr.pc = "pa_loop"
  /\ Commit(IF fr.k > Len(fr.cookie_candidates)
              THEN AfterCandidates(Cur)
              ELSE EnterDetails(Cur, fr.cookie_candidates[fr.k], FALSE))
  /\ UNCHANGED <<envVars, calc, botVars, now, gateVars, gateHist, cacheHist, ncalls>>

\* line 225: await _api_rate_gate()
HttpGate ==
  /\ fr.pc = "http_gate"
  /\ GateBody(Caller)
  /\ IF gpc'[Caller] = "idle"
       THEN fr' = [fr EXCEPT !.pc = "http_send"] /\ nacq' = nacq + 1
       ELSE UNCHANGED <<fr, nacq>>
  /\ UNCHANGED <<envVars, calc, botVars, now, gateHist, cache, cacheHist, cwriter, reqs, ncalls>>

HttpGateWake ==
  /\ fr.pc = "http_gate"
  /\ GateWake(Caller)
  /\ fr' = [fr EXCEPT !.pc = "http_send"]
  /\ nacq' = nacq + 1
  /\ UNCHANGED <<envVars, calc, botVars, now, gateHist, cache, cacheHist, cwriter, reqs, ncalls>>

\* lines 226-230: the GET goes out, with the cookie header if cur_cookie
HttpSend ==
  /\ fr.pc = "http_send"
  /\ fr' = [fr EXCEPT !.pc = "http_wait"]
  /\ reqs' = IF fr.op = "httpjson"
               THEN Append(IF Len(reqs) < 2 THEN reqs ELSE Tail(reqs),
                           [i |-> fr.i, cred |-> fr.cur_cookie, status |-> Pending])
               ELSE reqs
  /\ UNCHANGED <<envVars, calc, botVars, now, gateVars, gateHist, cache, cacheHist, cwriter, nacq, ncalls>>

NextAttempt_SkipsGate(s) ==
  IF s.f.i + 1 < attempts
    THEN [s EXCEPT !.f.i = @ + 1, !.f.pc = "http_send"]
    ELSE ReturnFromHttp(s, None, None)

NextAttempt_NoCap(s) == [s EXCEPT !.f.i = @ + 1, !.f.pc = "http_gate"]

\* line 224: the for loop goes to its next iteration, or ends (line 250)
NextAttempt(s) ==
  IF s.f.i + 1 < attempts
    THEN [s EXCEPT !.f.i = @ + 1, !.f.pc = "http_gate"]
    ELSE ReturnFromHttp(s, None, None)

\* line 244: cur_cookie = None
DropCredential(s) == [s EXCEPT !.f.cur_cookie = NoCookie]

On401_TriesAgain(s) == NextAttempt(s)

\* lines 236-237: if resp.status == 401: return None
On401(s) == ReturnFromHttp(s, None, None)

\* lines 231-249: the response is classified
HttpResp(status, data) ==
  LET key == Key("httpjson", fr.h_cookie # NoCookie, fr.gp_id)
      answered == IF fr.op = "httpjson"
                    THEN [Cur EXCEPT !.reqs = [reqs EXCEPT ![Len(reqs)].status = status]]
                    ELSE Cur
      asleep == [answered EXCEPT !.f.pc = "http_sleep"]
  IN /\ fr.pc = "http_wait"
     /\ Commit(IF status = TransportError THEN asleep
               ELSE IF status = 200
                 THEN ReturnFromHttp(Store(answered, key, data, fr.h_cookie), data, None)
               ELSE IF status = 401 THEN On401(answered)
               ELSE IF RESPECT_RETRY_AFTER /\ status \in {429, 503} THEN asleep
               ELSE IF status = 403 /\ fr.cur_cookie # NoCookie
                 THEN DropCredential(asleep)
               ELSE IF status \in RETRY_STATUSES THEN asleep
               ELSE NextAttempt(answered))
     /\ UNCHANGED <<envVars, calc, botVars, now, gateVars, gateHist, cacheHist, ncalls>>

\* the upstream answers the request in flight, or the request fails
Respond ==
  \E o \in upstream[fr.cur_cookie] :
    HttpResp(o.status, IF o.status = 200 THEN Blob(o.price, fr.cur_cookie) ELSE None)

\* the asyncio.sleep before `continue` ends (lines 242, 244, 246, 249)
HttpSleepDone ==
  /\ fr.pc = "http_sleep"
  /\ Commit(NextAttempt(Cur))
  /\ UNCHANGED <<envVars, calc, botVars, now, gateVars, gateHist, cacheHist, ncalls>>

\* what the render extraction of the item's page comes to: a price read off
\* the page, no price (extract_price_from_page returns None), or an exception
\* (playwright fails to launch, the page times out)
PageOutcomes == Prices \cup {NoPrice, TransportError}

\* lines 325-344: the page is rendered and the price extracted;
\* `_setc(key, price); return price` also when price is None
Scrape(page) ==
  LET key == Key("price_any", fr.cookie # NoCookie, fr.gp_id)
      price == IF page = NoPrice THEN None ELSE Blob(page, "page")
      s == [Cur EXCEPT !.f.scraped = TRUE]
  IN /\ fr.pc = "pa_scrape"
     /\ Commit(IF page = TransportError THEN Finish(s, None, None)
               ELSE Finish(Store(s, key, price, fr.cookie), price, None))
     /\ UNCHANGED <<envVars, calc, botVars, now, gateVars, gateHist, cacheHist, ncalls>>

CallTick == ClockTick /\ UNCHANGED <<cache, cacheHist, callVars>>

\* ------------------------------------------------------ fee and signals
\* An Optional[int] that is not None
Num(n) == [int |-> n]

\* line 183, price * 0.30, in tenths.  The double product differs from
\* 3 * price / 10 by far less than a twentieth and is exactly x.5 when
\* 3 * price / 10 is, so that the rounding below sees the exact value.
FeeTenths(price) == 3 * price

round_half_up_ToTheFloor(tenths) ==
  IF tenths >= 0 THEN tenths \div 10 ELSE -((-tenths) \div 10)

round_half_up_ToTens(tenths) == 10 * ((tenths + 50) \div 100)

\* lines 178-179, Decimal(n).quantize(Decimal("1"), ROUND_HALF_UP) of a number
\* given in tenths: to the nearest integer, a half away from zero
round_half_up(tenths) ==
  IF tenths >= 0 THEN (tenths + 5) \div 10 ELSE -((5 - tenths) \div 10)

\* lines 181-184
robux_received_after_fee(price) ==
  IF price = None THEN None
  ELSE Num(Max(0, price.int - round_half_up(FeeTenths(price.int))))

\* str.lower() on the letters that occur
LowerChar(ch) ==
  CASE ch = "R" -> "r" [] ch = "P" -> "p" [] ch = "I" -> "i"
    [] ch = "C" -> "c" [] ch = "E" -> "e" [] OTHER -> ch
Lower(str) == [j \in 1..Len(str) |-> LowerChar(str[j])]

Regional == <<"r", "e", "g", "i", "o", "n", "a", "l">>
PriceWord == <<"p", "r", "i", "c", "e">>

DistinctCount_Len(cross_prices) == Len(cross_prices)

\* line 196, len(set(cross_prices))
DistinctCount(cross_prices) ==
  Cardinality({cross_prices[j] : j \in 1..Len(cross_prices)})

\* lines 190-192: (details.get("priceInformation") or {}), its
\* "enabledFeatures" or [] and its "isInActivePriceOptimizationExperiment"
NoPriceInformation == [enabledFeatures |-> <<>>, inExperiment |-> FALSE]

\* lines 186-198
rp_enabled_from_signals(details, cross_prices, default_price) ==
  LET pi == IF details # None /\ details.priceInformation # None
              THEN details.priceInformation ELSE NoPriceInformation
      enabled == [j \in 1..Len(pi.enabledFeatures) |-> Lower(pi.enabledFeatures[j])]
      in_exp == pi.inExperiment
  IN IF details # None /\
        (in_exp \/ \E j \in 1..Len(enabled) :
                     IsSubstring(Regional, enabled[j]) \/ IsSubstring(PriceWord, enabled[j]))
       THEN TRUE
     ELSE IF DistinctCount(cross_prices) >= 2 THEN TRUE
     ELSE IF default_price # None /\ Len(cross_prices) > 0 /\
             (\E j \in 1..Len(cross_prices) : cross_prices[j] < default_price.int)
       THEN TRUE
     ELSE FALSE

\* the inputs the two functions are applied to
FeeInputs == {None} \cup {Num(n) : n \in (0 - MaxBelowZero)..MaxPrice}

FeatureNames ==
  {<<"R", "e", "g", "i", "o", "n", "a", "l">>, <<"P", "R", "I", "C", "E">>,
   <<"r", "i", "c", "e">>, <<"a", "d", "s">>}
SeqsUpTo(S, n) == UNION {[1..k -> S] : k \in 0..n}
DetailsInputs ==
  {None, [priceInformation |-> None]} \cup
  {[priceInformation |-> [enabledFeatures |-> fs, inExperiment |-> b]] :
     fs \in SeqsUpTo(FeatureNames, MaxFeatures), b \in BOOLEAN}
CrossPrices == {80, 100, 120}
CrossInputs == SeqsUpTo(CrossPrices, MaxCross)
DefaultInputs == {None} \cup {Num(n) : n \in CrossPrices}

\* robux_received_after_fee(price) is called; the call before it is kept
CalcFee(price) ==
  /\ calc' = [fn |-> "fee", price |-> price, out |-> robux_received_after_fee(price),
              before |-> IF calc.fn = "fee" THEN [price |-> calc.price, out |-> calc.out]
                         ELSE None]
  /\ UNCHANGED <<now, gateVars, gateHist, cache, cacheHist, callVars, envVars, botVars>>

\* rp_enabled_from_signals(details, cross_prices, default_price) is called
CalcSignals(details, cross_prices, default_price) ==
  /\ calc' = [fn |-> "rp", details |-> details, cross_prices |-> cross_prices,
              default_price |-> default_price,
              out |-> rp_enabled_from_signals(details, cross_prices, default_price)]
  /\ UNCHANGED <<now, gateVars, gateHist, cache, cacheHist, callVars, envVars, botVars>>

\* ------------------------------------------------------ batch scanner
\* build_embeds_for_ids (lines 544-584).  The code between two awaits is one
\* step; the resolution of one item, `await _scan_data(...)`, is one step from
\* the semaphore being taken to its return or its exception.
coreVars == <<now, gateVars, gateHist, cache, cacheHist, callVars, envVars, calc>>

\* what _scan_data comes to for an item: a price, no price, or an exception
Raised == [raised |-> TRUE]
ScanOutcomes == {Num(p) : p \in Prices} \cup {None, Raised}

\* lines 396-414, build_min_card: the card of an item
Embed(gp_id, price) == [gp_id |-> gp_id, price |-> price]

\* lines 416-424, build_summary_card
Summary(total_price, n_scanned, n_with_price) ==
  [total_price |-> total_price, n_scanned |-> n_scanned, n_with_price |-> n_with_price]

\* line 546
SlowMode(gp_ids) == Len(gp_ids) >= THROTTLE_THRESHOLD

\* line 552
Concurrency(slow_mode) == IF slow_mode THEN SLOW_CONCURRENCY ELSE FAST_CONCURRENCY

\* lines 574-575: the tasks created for the wave that starts at index i
WaveTasks(gp_ids, i) ==
  [j \in 1..Min(WAVE, Len(gp_ids) - i) |->
     [gp_id |-> gp_ids[i + j], st |-> "new", ret |-> None]]

SemFree_Always(sem) == TRUE

\* line 557, `async with sem`: the semaphore lets a task in
SemFree(sem) == sem > 0

Release_OnlyOnReturn(sem, outcome) == IF outcome = Raised THEN sem ELSE sem + 1

\* line 557, the exit of `async with sem`: the permit is given back when the
\* block is left, by a return or by an exception
Release(sem, outcome) == sem + 1

Accumulate_Overwrites(total, price) == price

\* line 561, `total_price_nonlocal[0] += price`: no await between the read
\* and the write
Accumulate(total, price) == total + price

\* lines 558-566: what one(gp_id) returns
one(gp_id, outcome) == IF outcome = Raised THEN None ELSE Embed(gp_id, outcome)

ShouldSleep_AfterEveryWave(slow_mode, i, n) == slow_mode

\* line 577
ShouldSleep(slow_mode, i, n) == slow_mode /\ i + WAVE < n

Results_Reversed(tasks) == [j \in 1..Len(tasks) |-> tasks[Len(tasks) + 1 - j].ret]

\* line 576: gather gives the tasks' results in the order of the tasks
Results(tasks) == [j \in 1..Len(tasks) |-> tasks[j].ret]

Truthy_KeepsAll(embeds) == embeds

\* line 584, `[e for e in embeds if e]`
Truthy(embeds) == SelectSeq(embeds, LAMBDA e : e # None)

\* lines 573-575 and 580-584: the loop goes to its next wave, or ends and the
\* summary is appended
NextWave(sc) ==
  IF sc.i + WAVE < Len(sc.gp_ids)
    THEN [sc EXCEPT !.i = @ + WAVE, !.tasks = WaveTasks(sc.gp_ids, sc.i + WAVE),
                    !.pc = "gather"]
    ELSE [sc EXCEPT !.pc = "done", !.tasks = <<>>,
                    !.ret = Truthy(Append(sc.embeds,
                                          Summary(sc.total_price, Len(sc.gp_ids),
                                                  sc.n_with_price)))]

\* lines 545-576: build_embeds_for_ids(gp_ids) up to its first await
ScanStart(gp_ids) ==
  /\ scan.pc = "idle"
  /\ scan' = IF gp_ids = <<>>
               THEN [NoScan EXCEPT !.pc = "done", !.ret = <<>>]
               ELSE [NoScan EXCEPT !.pc = "gather", !.gp_ids = gp_ids,
                                   !.slow_mode = SlowMode(gp_ids),
                                   !.concurrency = Concurrency(SlowMode(gp_ids)),
                                   !.sem = Concurrency(SlowMode(gp_ids)),
                                   !.i = 0, !.tasks = WaveTasks(gp_ids, 0),
                                   !.started = [j \in 1..Len(gp_ids) |-> 0],
                                   !.finished = [j \in 1..Len(gp_ids) |-> 0]]
  /\ UNCHANGED <<coreVars, allowed_by_guild, allowlist, outbox>>

\* line 557: task t of the wave takes the semaphore and calls _scan_data
TaskEnter(t) ==
  /\ scan.pc = "gather"
  /\ t \in DOMAIN scan.tasks
  /\ scan.tasks[t].st = "new"
  /\ SemFree(scan.sem)
  /\ scan' = [scan EXCEPT !.tasks[t].st = "running", !.sem = @ - 1,
                          !.started[scan.i + t] = @ + 1]
  /\ UNCHANGED <<coreVars, allowed_by_guild, allowlist, outbox>>

\* lines 559-566: _scan_data returns or raises in task t; the accumulators are
\* updated, the semaphore is released and the task ends
TaskReturn(t, outcome) ==
  /\ scan.pc = "gather"
  /\ t \in DOMAIN scan.tasks
  /\ scan.tasks[t].st = "running"
  /\ LET priced == outcome # Raised /\ outcome # None IN
     scan' = [scan EXCEPT
       !.tasks[t].st = "done",
       !.tasks[t].ret = one(scan.tasks[t].gp_id, outcome),
       !.total_price = IF priced THEN Accumulate(@, outcome.int) ELSE @,
       !.n_with_price = IF priced THEN @ + 1 ELSE @,
       !.sem = Release(@, outcome),
       !.finished[scan.i + t] = @ + 1,
       !.overtook = @ \/ \E u \in 1..(t - 1) : scan.tasks[u].st # "done"]
  /\ UNCHANGED <<coreVars, allowed_by_guild, allowlist, outbox>>

Gathered_AtFirstResult(tasks) == \E t \in DOMAIN tasks : tasks[t].st = "done"

\* line 576, `await asyncio.gather(*tasks)`: gather returns when every task
\* of the wave has ended
Gathered(tasks) == \A t \in DOMAIN tasks : tasks[t].st = "done"

\* lines 576-578: every task of the wave has ended; gather returns, the
\* results are appended, and the scanner sleeps or goes on
WaveGathered ==
  /\ scan.pc = "gather"
  /\ Gathered(scan.tasks)
  /\ LET sc == [scan EXCEPT !.embeds = @ \o Results(scan.tasks)] IN
     scan' = IF ShouldSleep(scan.slow_mode, scan.i, Len(scan.gp_ids))
               THEN [sc EXCEPT !.pc = "sleep", !.tasks = <<>>,
                               !.slept = @ \cup {scan.i}]
               ELSE NextWave(sc)
  /\ UNCHANGED <<coreVars, allowed_by_guild, allowlist, outbox>>

\* line 578: the inter-wave sleep ends
WaveSleepDone ==
  /\ scan.pc = "sleep"
  /\ scan' = NextWave(scan)
  /\ UNCHANGED <<coreVars, allowed_by_guild, allowlist, outbox>>

\* the batches scanned: ids in ascending and in descending order
IdLists ==
  UNION {{[j \in 1..n |-> j], [j \in 1..n |-> n + 1 - j]} : n \in 0..MaxIds}

\* ------------------------------------------------------ chunked sending
\* _send_embeds_in_chunks (lines 586-597).  One step per call of send_func.

\* Python's embeds[a:b], a and b counted from 0
Slice(embeds, a, b) == SubSeq(embeds, a + 1, Min(b, Len(embeds)))

\* the embeds handed over: item cards and the summary card
EmbedLists == UNION {[1..n -> {"card", "summary"}] : n \in 0..MaxEmbeds}

\* lines 587-591: the call up to its first send
SendStart(embeds) ==
  LET n == Len(embeds) IN
  /\ outbox.pc = "idle"
  /\ outbox' =
       IF n = 0 THEN [NoOutbox EXCEPT !.pc = "done"]
       ELSE IF n > CHUNK /\ n % CHUNK = 1
         THEN [NoOutbox EXCEPT !.pc = "short_tail", !.embeds = embeds,
                               !.upto = n - CHUNK - 1]
       ELSE [NoOutbox EXCEPT !.pc = "plain", !.embeds = embeds]
  /\ UNCHANGED <<coreVars, scan, allowed_by_guild, allowlist>>

\* lines 592-595: the list ends in a chunk of one; full chunks up to `upto`,
\* then one of CHUNK - 1 embeds together with the last embed
SendShortTail ==
  /\ outbox.pc = "short_tail"
  /\ outbox' =
       IF outbox.i < outbox.upto
         THEN [outbox EXCEPT
                 !.sent = Append(@, Slice(outbox.embeds, outbox.i, outbox.i + CHUNK)),
                 !.i = @ + CHUNK]
         ELSE [outbox EXCEPT
                 !.sent = Append(@, Slice(outbox.embeds, outbox.upto,
                                          outbox.upto + CHUNK - 1)
                                    \o <<outbox.embeds[Len(outbox.embeds)]>>),
                 !.pc = "done"]
  /\ UNCHANGED <<coreVars, scan, allowed_by_guild, allowlist>>

\* lines 596-597: chunks of CHUNK embeds, the last one shorter
SendPlain ==
  /\ outbox.pc = "plain"
  /\ outbox' =
       [outbox EXCEPT
          !.sent = Append(@, Slice(outbox.embeds, outbox.i, outbox.i + CHUNK)),
          !.i = @ + CHUNK,
          !.pc = IF outbox.i + CHUNK < Len(outbox.embeds) THEN "plain" ELSE "done"]
  /\ UNCHANGED <<coreVars, scan, allowed_by_guild, allowlist>>

\* ---------------------------------------------------- channel allowlist
\* allowed_channels.py: _allowed_by_guild and the functions that read and
\* change it.  Every list stored is built by the call that stores it, so no
\* two guilds share a list; _save_allowed writes the file and leaves the
\* dict as it is.
Range(list) == {list[j] : j \in 1..Len(list)}

\* allowed_channels.py lines 83-91
guild_channel_is_allowed(d, guild_id, channel_id) ==
  IF guild_id \notin DOMAIN d \/ d[guild_id] = <<>> THEN TRUE
  ELSE channel_id \in Range(d[guild_id])

\* list(dict.fromkeys(...)): the first occurrence of each id, in order
RECURSIVE FromKeys(_)
FromKeys(channel_ids) ==
  IF channel_ids = <<>> THEN <<>>
  ELSE LET front == FromKeys(SubSeq(channel_ids, 1, Len(channel_ids) - 1))
           last == channel_ids[Len(channel_ids)]
       IN IF last \in Range(front) THEN front ELSE Append(front, last)

\* allowed_channels.py lines 94-97
set_guild_allowed_channels(d, guild_id, channel_ids) ==
  [g \in DOMAIN d \cup {guild_id} |->
     IF g = guild_id THEN FromKeys(channel_ids) ELSE d[g]]

\* allowed_channels.py lines 100-105
add_allowed_channel(d, guild_id, channel_id) ==
  LET chans == IF guild_id \in DOMAIN d THEN d[guild_id] ELSE <<>> IN
  IF channel_id \in Range(chans) THEN d
  ELSE [g \in DOMAIN d \cup {guild_id} |->
          IF g = guild_id THEN Append(chans, channel_id) ELSE d[g]]

clear_allowed_for_guild_All(d, guild_id) == <<>>

\* allowed_channels.py lines 108-110
clear_allowed_for_guild(d, guild_id) == [g \in DOMAIN d \ {guild_id} |-> d[g]]

\* the channel lists a pinned configuration message can hold
ChannelLists == UNION {[1..n -> Channels] : n \in 0..MaxList}

\* /reload-config and the start-up scan of the pins
SetAllowed(guild_id, channel_ids) ==
  /\ allowed_by_guild' = set_guild_allowed_channels(allowed_by_guild, guild_id, channel_ids)
  /\ allowlist' = [allowlist EXCEPT ![guild_id] = Listed(Range(channel_ids))]
  /\ UNCHANGED <<coreVars, scan, outbox>>

\* allow_here
AddAllowed(guild_id, channel_id) ==
  /\ allowed_by_guild' = add_allowed_channel(allowed_by_guild, guild_id, channel_id)
  /\ allowlist' = [allowlist EXCEPT ![guild_id] = Listed(@.chans \cup {channel_id})]
  /\ UNCHANGED <<coreVars, scan, outbox>>

\* clear_allowed
ClearAllowed(guild_id) ==
  /\ allowed_by_guild' = clear_allowed_for_guild(allowed_by_guild, guild_id)
  /\ allowlist' = [allowlist EXCEPT ![guild_id] = NoList]
  /\ UNCHANGED <<coreVars, scan, outbox>>

\* ------------------------------------------------------ specifications
GateInit == now = 0 /\ InitGate /\ InitCache /\ InitCacheHist /\ InitCall /\ InitEnv

GateTick == ClockTick /\ UNCHANGED <<cache, cacheHist, callVars>>

GateNext ==
  \/ \E t \in Tasks : Acquire(t)
  \/ \E t \in Tasks : AcquireWake(t)
  \/ GateTick

\* Concurrent tasks calling _api_rate_gate() while time passes.
SpecGate == GateInit /\ [][GateNext]_vars

CacheInit == now = 0 /\ InitGate /\ InitCache /\ InitCacheHist /\ InitCall /\ InitEnv

CacheTick == ClockTick /\ UNCHANGED <<cache, cacheHist, callVars>>

CacheNext ==
  \/ \E key \in CacheKeys, bypass \in BOOLEAN : CacheGet(key, bypass)
  \/ \E key \in CacheKeys, val \in CacheVals : CacheSet(key, val)
  \/ \E gp_id \in Items : CacheClear(gp_id)
  \/ CacheTick

\* _getc, _setc and _clear_gp_cache called in any order while time passes.
SpecCache == CacheInit /\ [][CacheNext]_vars

FetchInit == now = 0 /\ InitGate /\ InitCache /\ InitCacheHist /\ InitCall /\ InitEnv

FetchStart ==
  \E gp_id \in {<<7>>}, cookie \in {"MAIN", NoCookie}, force \in BOOLEAN :
    Start("httpjson", gp_id, cookie, force)

FetchNext ==
  \/ FetchStart
  \/ HttpGate
  \/ HttpGateWake
  \/ HttpSend
  \/ Respond
  \/ HttpSleepDone
  \/ CallTick

\* _http_get_json called again and again while time passes.
SpecFetch == FetchInit /\ [][FetchNext]_vars

\* Time goes on past MaxNow for a caller asleep in the gate.
SleepTick ==
  /\ gpc[Caller] = "sleep"
  /\ now >= MaxNow
  /\ now < gwake[Caller]
  /\ now' = now + 1
  /\ immNow' = 0
  /\ suspNow' = FALSE
  /\ UNCHANGED <<envVars, calc, botVars, gateVars, g_owed, g_ret, g_started, g_returned, lateImm,
                 cache, cacheHist, callVars>>

TimePasses == CallTick \/ SleepTick

\* One call of _http_get_json, made when earlier traffic has left any balance
\* in the bucket.
FetchLiveInit ==
  /\ now = 0
  /\ api_tokens \in 0..BurstUnits
  /\ api_last = 0
  /\ gpc = [t \in Tasks |-> "idle"]
  /\ gwake = [t \in Tasks |-> 0]
  /\ g_owed = [t \in Tasks |-> 0]
  /\ g_ret = None
  /\ g_started = 0
  /\ g_returned = 0
  /\ immNow = 0
  /\ suspNow = FALSE
  /\ lateImm = FALSE
  /\ InitCache /\ InitCacheHist /\ InitCall /\ InitEnv

FetchLiveStart == ncalls = 0 /\ FetchStart

FetchLiveNext ==
  \/ FetchLiveStart
  \/ HttpGate
  \/ HttpGateWake
  \/ HttpSend
  \/ Respond
  \/ HttpSleepDone
  \/ TimePasses

\* The call scheduled fairly: the event loop runs a coroutine that is ready,
\* a sleep ends when its time has come, time passes, and the session's total
\* timeout of 10 s (line 107) makes every GET end in a response or an error.
SpecFetchLive ==
  /\ FetchLiveInit /\ [][FetchLiveNext]_vars
  /\ WF_vars(HttpGate) /\ WF_vars(HttpGateWake) /\ WF_vars(HttpSend)
  /\ WF_vars(Respond) /\ WF_vars(HttpSleepDone) /\ WF_vars(TimePasses)

CalcInit == now = 0 /\ InitGate /\ InitCache /\ InitCacheHist /\ InitCall /\ InitEnv

\* the fee is computed for one price, or for two, one after the other
FeeCall ==
  /\ calc.fn = "none" \/ (calc.fn = "fee" /\ calc.before = None)
  /\ \E price \in FeeInputs : CalcFee(price)

\* the signals are evaluated once
SignalsCall ==
  /\ calc.fn = "none"
  /\ \E details \in DetailsInputs, cross_prices \in CrossInputs,
        default_price \in DefaultInputs :
       CalcSignals(details, cross_prices, default_price)

CalcNext ==
  \/ FeeCall
  \/ SignalsCall

\* robux_received_after_fee and rp_enabled_from_signals applied to any input.
SpecCalc == CalcInit /\ [][CalcNext]_vars

Init == now = 0 /\ InitGate /\ InitCache /\ InitCacheHist /\ InitCall /\ InitEnv

ScanNext ==
  \/ \E gp_ids \in IdLists : ScanStart(gp_ids)
  \/ \E t \in 1..WAVE : TaskEnter(t)
  \/ \E t \in 1..WAVE, outcome \in ScanOutcomes : TaskReturn(t, outcome)
  \/ WaveGathered
  \/ WaveSleepDone

\* One batch scan: its tasks run in any interleaving, each item resolves to
\* any outcome.
SpecScan == Init /\ [][ScanNext]_vars

\* The same scan under the event loop's scheduling: a task that can take the
\* semaphore is run, gather and sleep return when they can, and every item's
\* resolution comes to an end.
SpecScanLive ==
  /\ SpecScan
  /\ WF_vars(\E t \in 1..WAVE : TaskEnter(t))
  /\ WF_vars(\E t \in 1..WAVE, outcome \in ScanOutcomes : TaskReturn(t, outcome))
  /\ WF_vars(WaveGathered)
  /\ WF_vars(WaveSleepDone)

SendNext ==
  \/ \E embeds \in EmbedLists : SendStart(embeds)
  \/ SendShortTail
  \/ SendPlain

\* _send_embeds_in_chunks called with any list of embeds.
SpecSend == Init /\ [][SendNext]_vars

AllowNext ==
  \/ \E g \in Guilds, channel_ids \in ChannelLists : SetAllowed(g, channel_ids)
  \/ \E g \in Guilds, c \in Channels : AddAllowed(g, c)
  \/ \E g \in Guilds : ClearAllowed(g)

\* The allowlist operations called in any order on any guild.
SpecAllow == Init /\ [][AllowNext]_vars

ResolveStart ==
  \E op \in {"price_any", "details"}, gp_id \in {<<7>>},
     cookie \in {"MAIN", "A", NoCookie}, force \in BOOLEAN :
    Start(op, gp_id, cookie, force)

Next ==
  \/ ResolveStart
  \/ PaLoop
  \/ HttpGate
  \/ HttpGateWake
  \/ HttpSend
  \/ Respond
  \/ HttpSleepDone
  \/ CallTick

ChainInit == now = 0 /\ InitGate /\ InitCache /\ InitCacheHist /\ InitCall /\ InitEnv

ChainStart ==
  \E gp_id \in {<<7>>}, cookie \in {"MAIN", "A", NoCookie}, force \in BOOLEAN :
    Start("price_any", gp_id, cookie, force)

ChainNext ==
  \/ ChainStart
  \/ PaLoop
  \/ HttpGate
  \/ HttpGateWake
  \/ HttpSend
  \/ Respond
  \/ HttpSleepDone
  \/ CallTick

\* get_price_any called again and again while time passes.
SpecChain == ChainInit /\ [][ChainNext]_vars

\* What a credential gets from an upstream that answers each credential in
\* one way: a price, a body without price, or a failure.
Answers == {Out(200, 20), Out(200, NoPrice), Out(401, NoPrice), Out(403, NoPrice),
            Out(500, NoPrice)}

\* the upstreams that answer each of backup A, backup B and the anonymous
\* request in one way
Upstreams ==
  {[c \in Creds |-> IF c = "MAIN" THEN {Out(401, NoPrice)} ELSE {f[c]}] :
     f \in [{"A", "B", NoCookie} -> Answers]}

FallbackInit ==
  /\ now = 0 /\ InitGate /\ InitCache /\ InitCacheHist /\ InitCall
  /\ cfg = DefaultConfig
  /\ upstream \in Upstreams
  /\ calc = NoCalc /\ InitBot

\* get_price_any with the credential order [A, B, None]
FallbackStart ==
  \E gp_id \in {<<7>>}, cookie \in {"A", NoCookie}, force \in BOOLEAN :
    Start("price_any", gp_id, cookie, force)

FallbackNext ==
  \/ FallbackStart
  \/ PaLoop
  \/ HttpGate
  \/ HttpGateWake
  \/ HttpSend
  \/ Respond
  \/ HttpSleepDone
  \/ CallTick

\* get_price_any against an upstream that answers each credential in one way.
SpecFallback == FallbackInit /\ [][FallbackNext]_vars

\* the upstreams that give each credential a price or turn it down
ScrapeUpstreams ==
  {u \in Upstreams : \A c \in Creds : u[c] \subseteq {Out(200, 20), Out(401, NoPrice)}}

\* any configuration
ScrapeInit ==
  /\ now = 0 /\ InitGate /\ InitCache /\ InitCacheHist /\ InitCall
  /\ cfg \in Configs
  /\ upstream \in ScrapeUpstreams
  /\ calc = NoCalc /\ InitBot

ScrapeStart ==
  \E gp_id \in {<<7>>}, cookie \in {"A", NoCookie}, force \in BOOLEAN :
    Start("price_any", gp_id, cookie, force)

ScrapeNext ==
  \/ ScrapeStart
  \/ PaLoop
  \/ HttpGate
  \/ HttpGateWake
  \/ HttpSend
  \/ Respond
  \/ \E page \in PageOutcomes : Scrape(page)
  \/ CallTick

\* get_price_any under every configuration, with the render extraction.
SpecScrape == ScrapeInit /\ [][ScrapeNext]_vars

\* get_price_any and api_get_details called again and again while time passes.
Spec == Init /\ [][Next]_vars

\* a call of one of the three cached functions, without force
LayeredStart ==
  \E op \in KeyOps, gp_id \in {<<7>>}, cookie \in {"MAIN", NoCookie} :
    StartWithin(MaxLayeredCalls, op, gp_id, cookie, FALSE)

\* _http_get_json, api_get_details and get_price_any called one after the
\* other, in any order, while time passes.
SpecLayered ==
  Init /\ [][LayeredStart \/ PaLoop \/ HttpGate \/ HttpGateWake \/ HttpSend
               \/ Respond \/ HttpSleepDone \/ CallTick]_vars

\* ------------------------------------------------------------- claims

\* C1: every acquire() that returns has debited exactly one token from the
\* bucket, a call that had to suspend included.
C1_AcquireDebitsOneToken == g_ret # None => g_ret.debit = TokenUnit

\* C2: the number of acquire() calls that return within an interval of length
\* t is at most burstCapacity + R*t; stated for the interval [0, now].
C2_RateEnvelope == g_returned * TokenUnit <= BurstUnits + now

\* C3: the token balance is always within [0, burstCapacity].
C3_TokensInRange == api_tokens >= 0 /\ api_tokens <= BurstUnits

\* C3 witness: callers have drained the bucket below one token, time has
\* passed, and a caller is suspended on it.
C3_Witness ==
  /\ api_tokens < TokenUnit
  /\ now > 0
  /\ g_returned >= API_BURST
  /\ \E t \in Tasks : gpc[t] = "sleep"

\* C4: of the acquire() calls made at one instant at most burst return without
\* suspending, and once one has suspended every further call suspends.
C4_ImmediateAtMostBurst == immNow <= API_BURST /\ ~lateImm

\* C4 witness: burst calls returned at once and a further one suspended, all
\* at the same instant.
C4_Witness == immNow = API_BURST /\ suspNow

\* C7 (as amended): a value set at time T is returned unchanged by every
\* non-bypass get at a time up to and including T+TTL, and is absent for every
\* get at a time greater than T+TTL.
C7_TTLInclusive ==
  (lastOp.op = "get" /\ ~lastOp.bypass) =>
    LET s == shadow[lastOp.key] IN
    cret = IF s # None /\ lastOp.at - s.ts <= CACHE_TTL_SECONDS
             THEN s.val ELSE None

\* C7 witness: a get at the instant T+TTL returned the value set at T.
C7_Witness ==
  /\ lastOp.op = "get" /\ ~lastOp.bypass
  /\ shadow[lastOp.key] # None
  /\ lastOp.at = shadow[lastOp.key].ts + CACHE_TTL_SECONDS
  /\ cret = shadow[lastOp.key].val

\* C7 (as claimed): returned by every get earlier than T+TTL, absent for every
\* get at T+TTL or later.
C7_TTLExclusive ==
  (lastOp.op = "get" /\ ~lastOp.bypass) =>
    LET s == shadow[lastOp.key] IN
    cret = IF s # None /\ lastOp.at - s.ts < CACHE_TTL_SECONDS
             THEN s.val ELSE None

\* C8: get(key, bypass=true) misses and leaves the cache unchanged; the entry
\* it passed over is returned by the next non-bypass get within its TTL.
C8_BypassMissesAndKeeps ==
  [][ /\ (lastOp'.n # lastOp.n /\ lastOp'.op = "get" /\ lastOp'.bypass)
        => (cret' = None /\ cache' = cache)
      /\ (/\ lastOp.op = "get" /\ lastOp.bypass
          /\ lastOp'.n # lastOp.n /\ lastOp'.op = "get" /\ ~lastOp'.bypass
          /\ lastOp'.key = lastOp.key
          /\ shadow[lastOp.key] # None
          /\ now - shadow[lastOp.key].ts <= CACHE_TTL_SECONDS)
        => cret' = shadow[lastOp.key].val ]_vars

\* C8 witness: a bypass get just missed on a key whose entry is stored and live.
C8_Witness ==
  /\ lastOp.op = "get" /\ lastOp.bypass
  /\ cret = None
  /\ lastOp.key \in DOMAIN cache
  /\ now - cache[lastOp.key].ts <= CACHE_TTL_SECONDS

\* C5: a fetch, details lookup or price resolution made with one credential
\* never returns a value that a call made with a different credential cached.
C5_NoCrossCredentialHit ==
  (fr.pc = "idle" /\ fr.ret # None /\ fr.hit # None) => fr.hit.writer = fr.hit.cred

\* C6: a call with force=true never returns a value read from a cache entry
\* that existed before the call.
C6_ForceReadsNoOldEntry ==
  (fr.pc = "idle" /\ fr.force /\ fr.ret # None /\ fr.hit # None) => ~fr.hit.old

\* C9: when a request that carried a credential is answered 403, the call
\* does not return before it has issued its next request, and that request
\* carries no credential, whichever attempt the 403 arrived on.
C9_AnonymousRetryAlways ==
  \A j \in 1..Len(reqs) :
    (reqs[j].status = 403 /\ reqs[j].cred # NoCookie) =>
      IF j < Len(reqs)
        THEN reqs[j + 1].cred = NoCookie /\ reqs[j + 1].i = reqs[j].i + 1
        ELSE fr.pc \in {"http_sleep", "http_gate", "http_send"}

\* C10: within one fetch, after a 401 or a 403 no further request is issued
\* with the credential of the request that got it, anonymous included.
C10_NoRepeatAfterAuthFailure ==
  \A j, k \in 1..Len(reqs) :
    (j < k /\ reqs[j].status \in {401, 403}) => reqs[k].cred # reqs[j].cred

\* C11: the step in which a request is answered 401 ends the call: it returns
\* None, the cache is as it was, no rate-gate acquisition is added, and the
\* answered request stays the last one of the call.
C11_401ReturnsAtOnce ==
  [][(fr.pc = "http_wait" /\ reqs'[Len(reqs')].status = 401) =>
       /\ fr'.pc = "idle" /\ fr'.ret = None
       /\ cache' = cache
       /\ nacq' = nacq
       /\ Len(reqs') = Len(reqs)]_vars

\* C11 witness: a call has returned on a 401 that answered its second or third
\* request.
C11_Witness ==
  /\ fr.pc = "idle" /\ fr.op = "httpjson"
  /\ Len(reqs) = 2 /\ reqs[2].status = 401 /\ reqs[2].i >= 1

\* C12: a call issues at most `attempts` requests, numbered in order; when the
\* last of them has failed the call returns None; and every call that has
\* started returns, whatever statuses and transport failures the upstream
\* produces.
C12_TerminatesWithinCap ==
  /\ [](/\ nacq <= attempts
        /\ \A j \in 1..Len(reqs) : reqs[j].i < attempts
        /\ Len(reqs) = 2 => reqs[2].i = reqs[1].i + 1
        /\ (fr.pc = "idle" /\ Len(reqs) > 0 /\ reqs[Len(reqs)].status # 200)
              => fr.ret = None)
  /\ ((fr.pc # "idle") ~> (fr.pc = "idle"))

\* C12 witness: the call has returned after its third request failed with a
\* retried status or in transport.
C12_Witness ==
  /\ fr.pc = "idle" /\ fr.ret = None
  /\ Len(reqs) = 2 /\ reqs[2].i = attempts - 1
  /\ reqs[1].status \in {429, 503} /\ reqs[2].status \in {500, 502, 504, TransportError}

C14_FirstPriceInOrder ==
  LET t == fr.tried
      n == Len(t)
      Rank(c) == IF c # NoCookie /\ c = fr.cookie THEN 0
                 ELSE IF c = "A" THEN 1 ELSE IF c = "B" THEN 2
                 ELSE IF c = NoCookie THEN 3 ELSE 4
      Chain == {c \in Creds : Rank(c) < 4}
      Before(c) == {d \in Chain : Rank(d) < Rank(c)}
  IN fr.op = "price_any" =>
       /\ \A j \in 1..n : t[j].cred \in Chain /\ Cardinality(Before(t[j].cred)) = j - 1
       /\ \A j \in 1..(n - 1) : t[j].price = None
       /\ (n > 0 /\ t[n].price # None) => (fr.pc = "idle" /\ fr.ret = t[n].price)
       /\ fr.pc \in {"http_gate", "http_send", "http_wait", "http_sleep"} =>
            (fr.h_cookie \in Chain /\ Cardinality(Before(fr.h_cookie)) = n)
       /\ (fr.pc = "idle" /\ fr.ret # None /\ fr.hit # None) =>
            (fr.hit.layer = "price_any" \/ (n > 0 /\ fr.ret = t[n].price))
       /\ (fr.pc = "idle" /\ fr.ret = None) => n = Cardinality(Chain)

\* C14 witness: called with the main cookie, the call has returned the price
\* that backup B gave after the main cookie and backup A gave none.
C14_Witness ==
  /\ fr.pc = "idle" /\ fr.op = "price_any" /\ fr.cookie = "MAIN"
  /\ Len(fr.tried) = 3
  /\ fr.tried[1] = [cred |-> "MAIN", price |-> None]
  /\ fr.tried[2] = [cred |-> "A", price |-> None]
  /\ fr.tried[3].cred = "B" /\ fr.tried[3].price # None
  /\ fr.ret = fr.tried[3].price /\ fr.ret.by = "B"

\* C15: with the credential order [A, B, anonymous], when A gives no price,
\* in whichever way, and the upstream answers B, and B only, with a price,
\* get_price_any returns the price the upstream has for B and the render
\* extraction does not run.
C15_FallbackToB ==
  \A p \in Prices :
    (/\ fr.pc = "idle" /\ fr.op = "price_any" /\ ncalls = 1
     /\ fr.cookie \in {"A", NoCookie}
     /\ Len(fr.tried) >= 1 /\ fr.tried[1] = [cred |-> "A", price |-> None]
     /\ upstream["B"] = {Out(200, p)}
     /\ \A o \in upstream[NoCookie] : o.price = NoPrice)
    => (fr.ret # None /\ fr.ret.price = p /\ fr.ret.by = "B" /\ ~fr.scraped)

\* C16: after every credential has failed to give a price, the render
\* extraction runs only if the speed mode is normal and either fast mode is
\* off, or auto-scrape-on-fail is on and playwright is available.
C16_ScrapeOnlyInNormalMode ==
  (/\ fr.pc = "pa_scrape"
   /\ ~cfg.FORCE_SCRAPE
   /\ Len(fr.tried) > 0 /\ Len(fr.tried) = Len(fr.cookie_candidates)
   /\ \A j \in 1..Len(fr.tried) : fr.tried[j].price = None)
  => /\ cfg.SPEED_MODE = "normal"
     /\ (~cfg.FAST_MODE \/ (cfg.AUTO_SCRAPE_ON_FAIL /\ cfg.TRY_PLAYWRIGHT))

\* C17: when get_price_any has returned an outcome, price or None, the next
\* get_price_any with force=false for the same credential presence and item
\* that returns within the TTL returns the same outcome.
C17_OutcomeCached ==
  (/\ fr.pc = "idle" /\ fr.op = "price_any" /\ ~fr.force
   /\ fr.prev # None
   /\ fr.prev.auth = (fr.cookie # NoCookie) /\ fr.prev.gp_id = fr.gp_id
   /\ fr.at - fr.prev.at <= CACHE_TTL_SECONDS)
  => fr.ret = fr.prev.ret

\* C18: rp_enabled_from_signals(details, cross_prices, default_price) is true
\* exactly when (1) the details flag the price-optimization experiment or list
\* an enabled feature whose lower-cased name contains "regional" or "price",
\* or (2) cross_prices holds two distinct values, or (3) default_price is
\* present and some cross price is strictly lower; (None, [100, 80], 100)
\* gives true and (None, [100], 100) gives false.
C18_SignalRules ==
  calc.fn = "rp" =>
    LET d == calc.details
        cp == calc.cross_prices
        dp == calc.default_price
        rule1 == /\ d # None /\ d.priceInformation # None
                 /\ \/ d.priceInformation.inExperiment
                    \/ \E j \in 1..Len(d.priceInformation.enabledFeatures) :
                         LET name == Lower(d.priceInformation.enabledFeatures[j]) IN
                         IsSubstring(Regional, name) \/ IsSubstring(PriceWord, name)
        rule2 == \E j, k \in 1..Len(cp) : cp[j] # cp[k]
        rule3 == dp # None /\ \E j \in 1..Len(cp) : cp[j] < dp.int
    IN /\ calc.out = (rule1 \/ rule2 \/ rule3)
       /\ (d = None /\ cp = <<100, 80>> /\ dp = Num(100)) => calc.out = TRUE
       /\ (d = None /\ cp = <<100>> /\ dp = Num(100)) => calc.out = FALSE

\* C18 witness: (None, [100, 80], 100) has been evaluated, to true.
C18_Witness ==
  /\ calc.fn = "rp" /\ calc.details = None
  /\ calc.cross_prices = <<100, 80>> /\ calc.default_price = Num(100)
  /\ calc.out = TRUE

\* C19: robux_received_after_fee(P) = max(0, P - f), f being 0.30 * P rounded
\* to the nearest integer with a half rounded away from zero; 100 gives 70
\* and 5 gives 3; the result is None exactly when the price is None.
C19_FeeFormula ==
  calc.fn = "fee" =>
    /\ (calc.out = None) <=> (calc.price = None)
    /\ calc.price # None =>
         LET P == calc.price.int IN
         /\ \E f \in (0 - MaxBelowZero)..MaxPrice :
              /\ IF P >= 0 THEN 10 * f - 5 <= 3 * P /\ 3 * P < 10 * f + 5
                           ELSE 10 * f - 5 < 3 * P /\ 3 * P <= 10 * f + 5
              /\ calc.out.int = (IF P - f > 0 THEN P - f ELSE 0)
         /\ P = 100 => calc.out.int = 70
         /\ P = 5 => calc.out.int = 3

\* C19 witness: the fee of price 5, a half rounded up, has been taken.
C19_Witness == calc.fn = "fee" /\ calc.price = Num(5) /\ calc.out = Num(3)

\* C20: for prices 0 <= P <= Q, robux_received_after_fee(P) <=
\* robux_received_after_fee(Q).
C20_FeeMonotone ==
  (/\ calc.fn = "fee" /\ calc.before # None
   /\ calc.price # None /\ calc.before.price # None
   /\ 0 <= calc.before.price.int /\ calc.before.price.int <= calc.price.int)
  => calc.before.out.int <= calc.out.int

\* C20 witness: the amounts for prices 4 and 5 have been computed, both 3.
C20_Witness ==
  /\ calc.fn = "fee" /\ calc.before # None
  /\ calc.before.price = Num(4) /\ calc.price = Num(5)
  /\ calc.before.out = Num(3) /\ calc.out = Num(3)

\* C26: every GET of _http_get_json, the first attempt and every retry, with
\* or without a credential, goes out only after an _api_rate_gate() call of
\* its own has returned: attempt i is sent when i + 1 gate calls have
\* returned, and none is sent with the caller still inside the gate.
C26_AcquireBeforeEveryGet ==
  /\ fr.pc \in {"http_send", "http_wait", "http_sleep"} =>
       nacq = fr.i + 1 /\ gpc[Caller] = "idle"
  /\ fr.pc = "http_gate" => nacq = fr.i
  /\ \A j \in 1..Len(reqs) : reqs[j].i < nacq

\* C26 witness: the third attempt of a credentialed call is in flight, with
\* the credential, after three gate calls.
C26_Witness ==
  /\ fr.pc = "http_wait" /\ fr.i = 2 /\ fr.cur_cookie = "MAIN"
  /\ nacq = 3 /\ Len(reqs) = 2 /\ reqs[2].i = 2

\* C29: every value held in the cache under a credentialed key (an httpjson
\* or details key with credential presence true) is the body of a response
\* to a request that carried a credential.
C29_CredentialedKeyHoldsCredentialedResponse ==
  \A k \in DOMAIN cache :
    (k.op \in {"httpjson", "details"} /\ k.auth) => cache[k].val.by # NoCookie

\* C30: the clearing step of a forced scan of item X removes only entries
\* of X: every entry under a key of another item Y is in the cache after
\* the step as it was before, also when X is a substring of Y.
C30_ClearTouchesOnlyItsItem ==
  [][\A X \in Items :
       CacheClear(X) =>
         \A k \in DOMAIN cache :
           k.id # X => (k \in DOMAIN cache' /\ cache'[k] = cache[k])]_vars

\* the tasks of the wave that are inside _scan_data
Running == {t \in DOMAIN scan.tasks : scan.tasks[t].st = "running"}

\* C21: at every instant of a batch scan at most `concurrency` item
\* resolutions are in progress, concurrency being SLOW_CONCURRENCY for a batch
\* of at least THROTTLE_THRESHOLD ids and FAST_CONCURRENCY for a shorter one.
C21_AtMostConcurrency ==
  Cardinality(Running) <=
    (IF Len(scan.gp_ids) >= THROTTLE_THRESHOLD THEN SLOW_CONCURRENCY
                                               ELSE FAST_CONCURRENCY)

\* C21 witness: a slow batch has SLOW_CONCURRENCY resolutions in progress
\* while another task of the wave waits for the semaphore.
C21_Witness ==
  /\ Len(scan.gp_ids) >= THROTTLE_THRESHOLD
  /\ Cardinality(Running) = SLOW_CONCURRENCY
  /\ \E t \in DOMAIN scan.tasks : scan.tasks[t].st = "new"

\* the item cards of the returned list: all but the summary, its last element
ReturnedCards == SubSeq(scan.ret, 1, Len(scan.ret) - 1)

\* the inputs whose resolution raised: one(gp_id) gave None for them
Failed == {j \in 1..Len(scan.embeds) : scan.embeds[j] = None}

HasPrice(e) == e # None /\ e.price # None

RECURSIVE SumOfPrices(_)
SumOfPrices(results) ==
  IF results = <<>> THEN 0
  ELSE (IF HasPrice(Head(results)) THEN Head(results).price.int ELSE 0)
       + SumOfPrices(Tail(results))

CountOfPrices(results) == Len(SelectSeq(results, HasPrice))

\* C23: in every interleaving of the item tasks the shared accumulators hold
\* the sum and the number of the prices of the items resolved so far, and the
\* summary of the batch has totalPriceSum equal to the sum of all non-absent
\* prices, itemsWithPrice equal to their number and itemsScanned equal to
\* the input count.
C23_SummaryFolds ==
  LET resolved == scan.embeds \o Results(scan.tasks) IN
  /\ scan.total_price = SumOfPrices(resolved)
  /\ scan.n_with_price = CountOfPrices(resolved)
  /\ (scan.pc = "done" /\ scan.gp_ids # <<>>) =>
       scan.ret[Len(scan.ret)] =
         Summary(SumOfPrices(scan.embeds), Len(scan.gp_ids), CountOfPrices(scan.embeds))

\* C23 witness: a batch has returned in which a task finished before one
\* created earlier, two items had the prices 10 and 20 and another had none.
C23_Witness ==
  /\ scan.pc = "done" /\ scan.overtook
  /\ scan.ret[Len(scan.ret)] = Summary(30, 3, 2)

\* the position of an id in the input
IndexOf(gp_id) == CHOOSE j \in 1..Len(scan.gp_ids) : scan.gp_ids[j] = gp_id

\* C24: the per-item results of a batch are returned in input order whatever
\* order the resolutions complete in: of two returned results, the one of
\* the earlier input id comes first.
C24_InputOrder ==
  (scan.pc = "done" /\ scan.gp_ids # <<>>) =>
    /\ \A a, b \in 1..Len(ReturnedCards) :
         a < b => IndexOf(ReturnedCards[a].gp_id) < IndexOf(ReturnedCards[b].gp_id)
    /\ \A j \in 1..Len(scan.embeds) :
         scan.embeds[j] # None => scan.embeds[j].gp_id = scan.gp_ids[j]

\* C24 witness: a batch of more than one wave, given in descending order of
\* id, has returned all its cards after a task finished before one created
\* earlier.
C24_Witness ==
  /\ scan.pc = "done" /\ scan.overtook
  /\ Len(scan.gp_ids) > WAVE /\ scan.gp_ids[1] > scan.gp_ids[2]
  /\ Len(ReturnedCards) = Len(scan.gp_ids)

\* the wave starts whose gather has returned
WavesGathered ==
  {w \in 0..(Len(scan.gp_ids) - 1) :
     /\ w % WAVE = 0
     /\ w < scan.i \/ (w = scan.i /\ scan.pc \in {"sleep", "done"})}

\* C27: the scanner sleeps the inter-wave delay after a wave exactly when the
\* batch is slow (at least THROTTLE_THRESHOLD ids) and the wave is not the
\* last one; it never sleeps in a fast batch and never after the last wave.
C27_SleepsBetweenSlowWaves ==
  LET n == Len(scan.gp_ids) IN
  /\ \A w \in WavesGathered :
       w \in scan.slept <=> (n >= THROTTLE_THRESHOLD /\ w + WAVE < n)
  /\ scan.slept \subseteq WavesGathered
  /\ scan.pc = "sleep" => scan.i \in scan.slept

\* C27 witness: a slow batch of two waves has returned, having slept after
\* the first wave only.
C27_Witness ==
  /\ scan.pc = "done" /\ Len(scan.gp_ids) >= THROTTLE_THRESHOLD
  /\ WavesGathered = {0, WAVE}
  /\ scan.slept = {0}

\* the embeds passed to send_func so far, call after call
RECURSIVE Flatten(_)
Flatten(chunks) == IF chunks = <<>> THEN <<>> ELSE Head(chunks) \o Flatten(Tail(chunks))

\* C28: _send_embeds_in_chunks passes every embed of its input to send_func
\* exactly once, in input order, in calls of at most CHUNK embeds each, for
\* every input of length n >= 1.
C28_EveryEmbedSentOnce ==
  /\ \A k \in 1..Len(outbox.sent) :
       Len(outbox.sent[k]) >= 1 /\ Len(outbox.sent[k]) <= CHUNK
  /\ outbox.pc = "done" => Flatten(outbox.sent) = outbox.embeds

\* C25: after any sequence of add_allowed_channel, set_guild_allowed_channels
\* and clear_allowed_for_guild calls, guild_channel_is_allowed(g, c) is true
\* exactly when guild g has no allowlist or an empty one, or c is on g's
\* allowlist; and a call leaves the answers unchanged for every guild whose
\* allowlist it does not change.
C25_AllowedIffListed ==
  /\ [](\A g \in Guilds, c \in Channels :
          guild_channel_is_allowed(allowed_by_guild, g, c) <=>
            (~allowlist[g].has \/ allowlist[g].chans = {} \/ c \in allowlist[g].chans))
  /\ [][\A g \in Guilds :
          allowlist'[g] = allowlist[g] =>
            \A c \in Channels :
              guild_channel_is_allowed(allowed_by_guild', g, c) =
                guild_channel_is_allowed(allowed_by_guild, g, c)]_vars

\* C25 witness: guild 1 has a list of two channels that shuts a third out,
\* guild 2 has had its list set to the empty one and admits every channel.
C25_Witness ==
  /\ allowlist[1] = Listed({1, 2}) /\ Len(allowed_by_guild[1]) = 2
  /\ ~guild_channel_is_allowed(allowed_by_guild, 1, 3)
  /\ allowlist[2] = Listed({}) /\ allowed_by_guild[2] = <<>>
  /\ guild_channel_is_allowed(allowed_by_guild, 2, 3)


\* the wave a position of gp_ids belongs to, and the positions whose
\* resolution has started and not ended
WaveOf(j) == (j - 1) \div WAVE
InFlight == {j \in DOMAIN scan.started : scan.started[j] > scan.finished[j]}

\* C33: in a batch scan no item of a later wave starts resolving before every
\* item of every earlier wave has finished, and the number of resolutions in
\* flight never exceeds the smaller of `concurrency` and the wave size.
C33_WavesDoNotOverlap ==
  /\ \A j, k \in DOMAIN scan.started :
       (WaveOf(j) < WaveOf(k) /\ scan.started[k] > 0) => scan.finished[j] > 0
  /\ scan.pc # "idle" => Cardinality(InFlight) <= Min(scan.concurrency, WAVE)

\* C33 witness: an item of the second wave is being resolved, as many
\* resolutions as `concurrency` allows are in flight, and in the first wave a
\* task had ended before one created earlier.
C33_Witness ==
  /\ scan.i > 0
  /\ scan.overtook
  /\ Cardinality(InFlight) = Min(scan.concurrency, WAVE)
  /\ \E j \in InFlight : WaveOf(j) > 0

\* C34: for every id list, when every item's resolution comes to an end,
\* build_embeds_for_ids eventually returns; the resolution of each input
\* position has then been started exactly once (and never more than once on
\* the way), and every permit of the semaphore has been given back.
C34_ScanReturns ==
  /\ (scan.pc # "idle") ~> (scan.pc = "done")
  /\ [](/\ Len(scan.started) = Len(scan.gp_ids)
        /\ \A j \in DOMAIN scan.started : scan.started[j] <= 1
        /\ scan.pc = "done" =>
             /\ \A j \in DOMAIN scan.started :
                  scan.started[j] = 1 /\ scan.finished[j] = 1
             /\ scan.sem = scan.concurrency)

\* C34 witness: a slow batch of more than one wave has returned after one of
\* its resolutions raised.
C34_Witness ==
  /\ scan.pc = "done"
  /\ scan.slow_mode
  /\ Len(scan.gp_ids) > WAVE
  /\ Len(scan.ret) < Len(scan.gp_ids) + 1

\* C32: a price resolution called with the anonymous credential,
\* get_price_any(gp_id, None), sends only requests that carry no cookie, and
\* the price it returns and the price kept under the anonymous price key were
\* answered to a request without cookie.
C32_AnonymousResolutionIsAnonymous ==
  /\ (fr.op = "price_any" /\ fr.cookie = NoCookie /\ fr.pc = "http_send")
       => fr.cur_cookie = NoCookie
  /\ (fr.op = "price_any" /\ fr.cookie = NoCookie /\ fr.pc = "idle" /\ fr.ret # None)
       => fr.ret.by = NoCookie
  /\ \A id \in Items :
       LET key == Key("price_any", FALSE, id) IN
       (key \in DOMAIN cache /\ cache[key].val # None) => cache[key].val.by = NoCookie

\* C31: a price that get_price_any returns was answered by the upstream (or
\* read off the rendered page) at most CACHE_TTL_SECONDS before the return,
\* whatever calls of _http_get_json, api_get_details and get_price_any came
\* before it.
C31_ReturnedPriceWithinTTL ==
  (fr.pc = "idle" /\ fr.op = "price_any" /\ fr.ret # None)
    => fr.at - fr.ret.at <= CACHE_TTL_SECONDS

=========================================================================
